---- MODULE Spec2Model ----
(***************************************************************************)
(* A model of the syscall dispatcher of the simulator                      *)
(* (src/main/host/syscall/handler/mod.rs): SyscallHandler::syscall, the    *)
(* process-wide WARNED_SET, SyscallHandlerFn::call and the get_descriptor  *)
(* helpers, and of the simulator's entry point run_shadow                  *)
(* (src/main/core/main.rs).                                                *)
(*                                                                         *)
(* Workers run dispatcher invocations in parallel.  Everything an          *)
(* invocation touches is local to its thread except WARNED_SET, so an      *)
(* invocation is one atomic step, except in the unsupported arm, where     *)
(* the read-locked lookup and the write-locked insert are two steps that   *)
(* other workers may interleave with.                                      *)
(***************************************************************************)
EXTENDS Integers, Sequences, FiniteSets, TLC

VARIABLES
    WARNED_SET,        \* static RwLock<Option<HashSet<SyscallNum>>>: <<>> is None, <<S>> is Some(S)
    pc,                \* per worker: "idle", "unsupported" (between lookup and insert), "panicked"
    inv,               \* per worker: the locals and the outcome of its current / last invocation
    counter,           \* per worker: the thread's syscall counter, name -> count
    hasCounter,        \* whether _syscallhandler_getCounter returns a counter (non-null)
    addOnes,           \* per worker: add_one calls made for the current logical syscall
    blocks,            \* per worker: times the current logical syscall has returned Blocked
    unsupLog,          \* per syscall number: levels of the "unsupported syscall" log calls, in order
    asserts,           \* number of failed insert assertions so far
    maxLevel,          \* log::max_level()
    entries,           \* dispatcher entries made so far
    descriptor_table,  \* a process's DescriptorTable: handle -> descriptor
    lookup,            \* the last get_descriptor / get_descriptor_mut call and what it returned
    handlerCall,       \* the last SyscallHandlerFn::call: what it read and what the handler got
    mpc,               \* run_shadow: the step it is at, or "returned" / "exited" / "panicked"
    options,           \* run_shadow: the CliOptions
    shadow_config,     \* run_shadow: the ConfigOptions read from the configuration file
    logger,            \* shadow_logger: whether it is initialised, its buffering, log::max_level()
    warnings,          \* run_shadow: the log::warn! calls made so far
    passed,            \* run_shadow: the fallible steps that have succeeded so far
    ran,               \* run_shadow: whether controller.run() has been executed
    result             \* run_shadow: how it ended

dvars == <<WARNED_SET, pc, inv, counter, hasCounter, addOnes, blocks, unsupLog,
           asserts, maxLevel, entries>>

fvars == <<descriptor_table, lookup>>

cvars == <<handlerCall>>

mvars == <<mpc, options, shadow_config, logger, warnings, passed, ran, result>>

vars == <<dvars, fvars, cvars, mvars>>

----------------------------------------------------------------------------
(* Bounds of the model *)

\* dispatcher entries (first entries and resumptions) explored overall
MaxEntries == 3

\* descriptors a table holds at most
MaxDescriptors == 3

Workers == {"w1", "w2"}

----------------------------------------------------------------------------
(* Machine words.  A SysCallReg is 64 bits wide; it is kept as four 16-bit *)
(* limbs, most significant first, so that no value leaves the checker's    *)
(* integer range.                                                          *)

Limb == 2 ^ 16

Word(l3, l2, l1, l0) == <<l3, l2, l1, l0>>

ZeroWord == Word(0, 0, 0, 0)

\* T0 -> SysCallReg for a signed value: sign extension to 64 bits
IntoSysCallReg(v) ==
    LET ext == IF v < 0 THEN Limb - 1 ELSE 0
    IN  Word(ext, ext, (v \div Limb) % Limb, v % Limb)

\* i64::from(SysCallReg), for the words whose value the checker can hold
FromRegI64(reg) ==
    IF reg[1] = 0 /\ reg[2] = 0 /\ reg[3] < Limb \div 2
    THEN reg[3] * Limb + reg[4]
    ELSE IF reg[1] = Limb - 1 /\ reg[2] = Limb - 1 /\ reg[3] >= Limb \div 2
    THEN (reg[3] - Limb) * Limb + reg[4]
    ELSE 0

----------------------------------------------------------------------------
(* Syscall numbers and their routing *)

NR_shadow_hostname_to_addr_ipv4 == 1003
NR_shadow_init_memory_manager == 1004
NR_shadow_yield == 1005

\* SyscallNum::to_str on the numbers the model draws (x86-64 numbering);
\* <<>> is None
to_str(syscall) ==
    CASE syscall = 0   -> <<"read">>
      [] syscall = 3   -> <<"close">>
      [] syscall = 24  -> <<"sched_yield">>
      [] syscall = 228 -> <<"clock_gettime">>
      [] syscall = 102 -> <<"getuid">>
      [] syscall = 21  -> <<"access">>
      [] syscall = 101 -> <<"ptrace">>
      [] syscall = 165 -> <<"mount">>
      [] OTHER         -> <<>>

\* let syscall_name = syscall.to_str().unwrap_or("unknown-syscall")
syscall_name_of(syscall) ==
    IF to_str(syscall) = <<>> THEN "unknown-syscall" ELSE to_str(syscall)[1]

\* the arms "SyscallNum::NR_x => handle!(x)"
Emulated == {
    "accept", "accept4", "bind", "brk", "clock_getres", "clock_nanosleep",
    "clone", "clone3", "close", "connect", "creat", "dup", "dup2", "dup3",
    "epoll_create", "epoll_create1", "epoll_ctl", "epoll_pwait", "epoll_pwait2",
    "epoll_wait", "eventfd", "eventfd2", "execve", "execveat", "exit_group",
    "faccessat", "fadvise64", "fallocate", "fchmod", "fchmodat", "fchown",
    "fchownat", "fcntl", "fdatasync", "fgetxattr", "flistxattr", "flock", "fork",
    "fremovexattr", "fsetxattr", "fstat", "fstatfs", "fsync", "ftruncate",
    "futex", "futimesat", "get_robust_list", "getdents", "getdents64",
    "getitimer", "getpeername", "getpgid", "getpgrp", "getpid", "getppid",
    "getrandom", "getsid", "getsockname", "getsockopt", "gettid", "ioctl",
    "kill", "linkat", "listen", "lseek", "mkdirat", "mknodat", "mmap",
    "mprotect", "mremap", "munmap", "nanosleep", "newfstatat", "open", "openat",
    "pipe", "pipe2", "poll", "ppoll", "prctl", "pread64", "preadv", "preadv2",
    "prlimit64", "pselect6", "pwrite64", "pwritev", "pwritev2", "read",
    "readahead", "readlinkat", "readv", "recvfrom", "recvmsg", "renameat",
    "renameat2", "rseq", "rt_sigaction", "rt_sigprocmask", "sched_getaffinity",
    "sched_setaffinity", "select", "sendmsg", "sendto", "set_robust_list",
    "set_tid_address", "setitimer", "setpgid", "setsid", "setsockopt",
    "shutdown", "sigaltstack", "socket", "socketpair", "statx", "symlinkat",
    "sync_file_range", "syncfs", "sysinfo", "tgkill", "timerfd_create",
    "timerfd_gettime", "timerfd_settime", "tkill", "uname", "unlinkat",
    "utimensat", "vfork", "waitid", "wait4", "write", "writev" }

\* the custom arms "NR_shadow_x => handle!(shadow_x)"
Custom ==
    { NR_shadow_hostname_to_addr_ipv4, NR_shadow_init_memory_manager, NR_shadow_yield }

\* the arm that panics: "should have been handled in the shim"
ShimOnly == { "clock_gettime", "gettimeofday", "sched_yield", "time" }

\* the arm that returns Err(SyscallError::Native)
Native == {
    "access", "arch_prctl", "chmod", "chown", "exit", "getcwd", "geteuid",
    "getegid", "getgid", "getgroups", "getresgid", "getresuid", "getrlimit",
    "getuid", "getxattr", "lchown", "lgetxattr", "link", "listxattr",
    "llistxattr", "lremovexattr", "lsetxattr", "lstat", "madvise", "mkdir",
    "mknod", "readlink", "removexattr", "rename", "rmdir", "rt_sigreturn",
    "setfsgid", "setfsuid", "setgid", "setregid", "setresgid", "setresuid",
    "setreuid", "setrlimit", "setuid", "setxattr", "stat", "statfs", "symlink",
    "truncate", "unlink", "utime", "utimes" }

IsNamed(syscall, names) == to_str(syscall) # <<>> /\ to_str(syscall)[1] \in names

\* Route, were the shim-only names listed with the native ones
Route_ShimOnlyAsNative(syscall) ==
    IF IsNamed(syscall, Emulated) THEN "emulated"
    ELSE IF syscall \in Custom THEN "custom"
    ELSE IF IsNamed(syscall, ShimOnly \cup Native) THEN "native"
    ELSE "unsupported"

\* "match syscall { ... }": the arm a number is routed to, arms tried in order
Route(syscall) ==
    IF IsNamed(syscall, Emulated) THEN "emulated"
    ELSE IF syscall \in Custom THEN "custom"
    ELSE IF IsNamed(syscall, ShimOnly) THEN "shim_only"
    ELSE IF IsNamed(syscall, Native) THEN "native"
    ELSE "unsupported"

\* the syscall numbers the model draws: read, shadow_yield, the shim-only
\* clock_gettime and sched_yield, getuid, and for the unsupported arm one
\* that has a name (ptrace) and one that has none.  SysCallArgs::number is
\* a u32, so "ctx.args.number.try_into().unwrap()" succeeds on each
Numbers == { 0, NR_shadow_yield, 228, 24, 102, 101, 99999 }

\* the SysCallArgs argument words the dispatcher is entered with; it hands
\* them to the handler unread (what a handler gets of them is drawn from
\* CallArgSamples)
ArgSamples == { [i \in 1..6 |-> Word(0, 0, 0, i)] }

----------------------------------------------------------------------------
(* Results *)

ENOSYS == 38

\* Result<T0, SyscallError> as a handler returns it
HOk(v) == [tag |-> "Ok", val |-> v, errno |-> 0, cond |-> 0]
HFailed(e) == [tag |-> "Failed", val |-> 0, errno |-> e, cond |-> 0]
HNative == [tag |-> "Native", val |-> 0, errno |-> 0, cond |-> 0]
HBlocked(c) == [tag |-> "Blocked", val |-> 0, errno |-> 0, cond |-> c]
HNone == [tag |-> "None", val |-> 0, errno |-> 0, cond |-> 0]

\* what a handler may return: a value, an errno (EBADF), Native, or Blocked
\* on a wait condition
HandlerResults ==
    { HOk(v) : v \in {-1} } \cup { HFailed(9), HNative, HBlocked(1) }

\* SyscallResult as the dispatcher returns it; "Panic" is the invocation
\* unwinding instead of returning, "None" an invocation still in flight
Ok(reg) == [tag |-> "Ok", reg |-> reg, errno |-> 0, cond |-> 0]
Failed(e) == [tag |-> "Failed", reg |-> ZeroWord, errno |-> e, cond |-> 0]
NativeRv == [tag |-> "Native", reg |-> ZeroWord, errno |-> 0, cond |-> 0]
Blocked(c) == [tag |-> "Blocked", reg |-> ZeroWord, errno |-> 0, cond |-> c]
Panic == [tag |-> "Panic", reg |-> ZeroWord, errno |-> 0, cond |-> 0]
NoRv == [tag |-> "None", reg |-> ZeroWord, errno |-> 0, cond |-> 0]

\* call, were a handler's failure turned into a value (the negated errno)
call_FailureAsValue(handler_rv) ==
    IF handler_rv.tag = "Ok" THEN Ok(IntoSysCallReg(handler_rv.val))
    ELSE IF handler_rv.tag = "Failed" THEN Ok(IntoSysCallReg(0 - handler_rv.errno))
    ELSE [tag |-> handler_rv.tag, reg |-> ZeroWord,
          errno |-> handler_rv.errno, cond |-> handler_rv.cond]

\* self(ctx, ...).map(Into::into)
call(handler_rv) ==
    IF handler_rv.tag = "Ok" THEN Ok(IntoSysCallReg(handler_rv.val))
    ELSE [tag |-> handler_rv.tag, reg |-> ZeroWord,
          errno |-> handler_rv.errno, cond |-> handler_rv.cond]

----------------------------------------------------------------------------
(* Logging *)

\* the values of log::max_level() the model draws (Info enables of the
\* dispatcher's records what Warn enables)
Levels == { "Error", "Warn", "Debug", "Trace" }

LevelRank(level) ==
    CASE level = "Error" -> 1
      [] level = "Warn"  -> 2
      [] level = "Info"  -> 3
      [] level = "Debug" -> 4
      [] level = "Trace" -> 5

\* log::log_enabled!(level)
log_enabled(level) == LevelRank(level) <= LevelRank(maxLevel)

Ev(ev, text) == [ev |-> ev, text |-> text]

\* log::log!(level, ...): the record reaches the log only if the level is enabled
Log(level, ev, text) == IF log_enabled(level) THEN << Ev(ev, text) >> ELSE << >>

\* what log_syscall_simple may do: strace logging is off and nothing is
\* written, the line is written, or the write fails and Err is returned
StraceOutcomes == { "disabled", "written", "failed" }

\* the strace line of the native and unsupported arms, up to log_syscall_simple's unwrap
StraceEvents(strace, text) ==
    CASE strace = "disabled" -> << >>
      [] strace = "written"  -> << Ev("STRACE", text) >>
      [] strace = "failed"   -> << Ev("PANIC", "log_syscall_simple") >>

\* the text of the post-call trace
rv_formatted(rv) ==
    CASE rv.tag = "Ok"      -> ToString(FromRegI64(rv.reg))
      [] rv.tag = "Failed"  -> ToString(0 - rv.errno)
      [] rv.tag = "Native"  -> "<native>"
      [] rv.tag = "Blocked" -> "<blocked>"

\* PostTrace, were the mark of a resumed call left out
PostTrace_Unmarked(rv, was_blocked) ==
    IF LevelRank("Trace") <= LevelRank(maxLevel)
    THEN << [ev |-> "POST", text |-> rv_formatted(rv)] >>
    ELSE << >>

\* log::trace!("SYSCALL_HANDLER_PRE: ...")
PreTrace(was_blocked) ==
    Log("Trace", "PRE", IF was_blocked THEN " (previously BLOCKed)" ELSE "")

\* if log::log_enabled!(log::Level::Trace) { ... log::trace!("SYSCALL_HANDLER_POST: ...") }
PostTrace(rv, was_blocked) ==
    IF log_enabled("Trace")
    THEN Log("Trace", "POST", (IF was_blocked THEN "BLOCK -> " ELSE "") \o rv_formatted(rv))
    ELSE << >>

\* the function returning rv
Return(rv) == << Ev("RETURN", rv.tag) >>

----------------------------------------------------------------------------
(* SyscallHandler::syscall *)

\* c::_syscallhandler_wasBlocked: set while the thread's last dispatch of its
\* current syscall returned Blocked and the scheduler re-enters it
WasBlocked(w) == inv[w].rv.tag = "Blocked"

\* add_one, were a call counted twice
add_one_Twice(c, name) == [c EXCEPT ![name] = @ + 2]

\* syscall_counter.add_one(syscall_name)
add_one(c, name) == [c EXCEPT ![name] = @ + 1]

\* Counted, were the check of was_blocked left out
Counted_EveryEntry(w, was_blocked) == hasCounter

\* "if let Some(syscall_counter) = ... { if !was_blocked { ... } }"
Counted(w, was_blocked) == hasCounter /\ ~was_blocked

\* the handler an emulated or custom arm names
HandlerOf(syscall) ==
    CASE syscall = NR_shadow_hostname_to_addr_ipv4 -> "shadow_hostname_to_addr_ipv4"
      [] syscall = NR_shadow_init_memory_manager -> "shadow_init_memory_manager"
      [] syscall = NR_shadow_yield -> "shadow_yield"
      [] OTHER -> syscall_name_of(syscall)

CounterNames == { syscall_name_of(n) : n \in Numbers }

\* the locals of an invocation once the pre-call trace and the counter are done
\* and "match syscall" has picked its arm; "earlier" is what the thread's
\* earlier entries of the same syscall, the ones that blocked, left behind
Entered(w, number, args, was_blocked) ==
    [ number |-> number, args |-> args, was_blocked |-> was_blocked,
      route |-> Route(number), has_already_warned |-> FALSE,
      handler |-> "", handler_calls |-> 0, handler_rv |-> HNone,
      level |-> "", inserted |-> FALSE, panic |-> "",
      events |-> PreTrace(was_blocked)
                 \o (IF Counted(w, was_blocked)
                     THEN << Ev("COUNT", syscall_name_of(number)) >> ELSE << >>)
                 \o << Ev("ARM", Route(number)) >>,
      earlier |-> IF was_blocked THEN inv[w].earlier \o inv[w].events ELSE << >>,
      rv |-> NoRv ]

\* an emulated or custom arm, handle!(f), then the post-call trace and the return
EmulatedArm(e, handler_rv) ==
    LET rv == call(handler_rv)
    IN  [e EXCEPT !.handler = HandlerOf(e.number),
                  !.handler_calls = @ + 1,
                  !.handler_rv = handler_rv,
                  !.events = @ \o << Ev("HANDLER", HandlerOf(e.number)) >>
                               \o PostTrace(rv, e.was_blocked) \o Return(rv),
                  !.rv = rv]

\* ShimOnlyArm, were the syscall answered with ENOSYS instead of the panic
ShimOnlyArm_ReturnsENOSYS(e) ==
    [e EXCEPT !.events = @ \o Return(Failed(ENOSYS)), !.rv = Failed(ENOSYS)]

\* the shim-only arm: panic!("Syscall {} ({}) should have been handled in the shim")
ShimOnlyArm(e) ==
    [e EXCEPT !.events = @ \o << Ev("PANIC", "should have been handled in the shim") >>,
              !.panic = "shim",
              !.rv = Panic]

\* the native arm: trace, rv = Err(Native), log_syscall_simple(...).unwrap(), then
\* the post-call trace and the return
NativeArm(e, strace) ==
    LET rv == NativeRv
        logged == e.events \o Log("Trace", "NATIVE", syscall_name_of(e.number))
                           \o StraceEvents(strace, syscall_name_of(e.number) \o "(...)")
    IN  IF strace = "failed"
        THEN [e EXCEPT !.events = logged, !.panic = "strace", !.rv = Panic]
        ELSE [e EXCEPT !.events = logged \o PostTrace(rv, e.was_blocked) \o Return(rv),
                       !.rv = rv]

\* WARNED_SET.read().unwrap().as_ref().map(|x| x.contains(&syscall)).unwrap_or(false)
has_already_warned(syscall) ==
    IF WARNED_SET = << >> THEN FALSE ELSE syscall \in WARNED_SET[1]

\* the entry of the dispatcher up to the arm; the emulated, custom, shim-only
\* and native arms run to their end, the unsupported arm up to its lookup
SyscallHandler_syscall(w, number, args, was_blocked, handler_rv, strace) ==
    LET e == Entered(w, number, args, was_blocked)
    IN  /\ entries' = entries + 1
        /\ counter' = IF Counted(w, was_blocked)
                      THEN [counter EXCEPT ![w] = add_one(@, syscall_name_of(number))]
                      ELSE counter
        /\ addOnes' = [addOnes EXCEPT ![w] = (IF was_blocked THEN @ ELSE 0)
                                             + (IF Counted(w, was_blocked) THEN 1 ELSE 0)]
        /\ IF e.route \in {"emulated", "custom"}
           THEN LET done == EmulatedArm(e, handler_rv)
                IN  /\ inv' = [inv EXCEPT ![w] = done]
                    /\ blocks' = [blocks EXCEPT ![w] = (IF was_blocked THEN @ ELSE 0)
                                             + (IF done.rv.tag = "Blocked" THEN 1 ELSE 0)]
                    /\ UNCHANGED pc
           ELSE IF e.route = "shim_only"
           THEN /\ inv' = [inv EXCEPT ![w] = ShimOnlyArm(e)]
                /\ pc' = [pc EXCEPT ![w] = "panicked"]
                /\ blocks' = [blocks EXCEPT ![w] = IF was_blocked THEN @ ELSE 0]
           ELSE IF e.route = "native"
           THEN LET done == NativeArm(e, strace)
                IN  /\ inv' = [inv EXCEPT ![w] = done]
                    /\ pc' = [pc EXCEPT ![w] = IF done.rv = Panic THEN "panicked" ELSE "idle"]
                    /\ blocks' = [blocks EXCEPT ![w] = IF was_blocked THEN @ ELSE 0]
           ELSE /\ inv' = [inv EXCEPT ![w] =
                              [e EXCEPT !.has_already_warned = has_already_warned(number)]]
                /\ pc' = [pc EXCEPT ![w] = "unsupported"]
                /\ blocks' = [blocks EXCEPT ![w] = IF was_blocked THEN @ ELSE 0]
        /\ UNCHANGED <<WARNED_SET, hasCounter, unsupLog, asserts, maxLevel, fvars, cvars, mvars>>

\* insert, were the set replaced by one that holds the new number only
insert_Replacing(syscall) ==
    LET set == IF WARNED_SET = << >> THEN {} ELSE WARNED_SET[1]
    IN  [set |-> << {syscall} >>, new |-> syscall \notin set]

\* WARNED_SET.write().unwrap().get_or_insert_with(HashSet::new).insert(syscall):
\* the set afterwards and what insert returned
insert(syscall) ==
    LET set == IF WARNED_SET = << >> THEN {} ELSE WARNED_SET[1]
    IN  [set |-> << set \cup {syscall} >>, new |-> syscall \notin set]

\* LevelFor, were the two levels the other way round
LevelFor_Swapped(already_warned) == IF already_warned THEN "Warn" ELSE "Debug"

\* let level = if has_already_warned { Debug } else { Warn }
LevelFor(already_warned) == IF already_warned THEN "Debug" ELSE "Warn"

\* the text of the strace line of the unsupported arm
UnsupportedStrace(syscall) ==
    IF to_str(syscall) # << >>
    THEN to_str(syscall)[1] \o "(...)"
    ELSE "syscall(" \o ToString(syscall) \o ", ...)"

\* the unsupported arm from "if !has_already_warned" on: the insert and its
\* assertion, the level, the log line, rv = ENOSYS, the strace line, then the
\* post-call trace and the return
UnsupportedArm(w, strace) ==
    /\ pc[w] = "unsupported"
    /\ LET e == inv[w]
           ins == insert(e.number)
           level == LevelFor(e.has_already_warned)
           rv == Failed(ENOSYS)
           logged == e.events \o Log(level, "UNSUPPORTED", syscall_name_of(e.number))
                              \o StraceEvents(strace, UnsupportedStrace(e.number))
       IN  IF ~e.has_already_warned /\ ~ins.new
           THEN \* the assertion fails after the insert; the write guard is released
                /\ WARNED_SET' = ins.set
                /\ inv' = [inv EXCEPT ![w].events = @ \o << Ev("PANIC", "assert insert") >>,
                                      ![w].panic = "assert",
                                      ![w].rv = Panic]
                /\ pc' = [pc EXCEPT ![w] = "panicked"]
                /\ asserts' = asserts + 1
                /\ UNCHANGED unsupLog
           ELSE /\ WARNED_SET' = IF e.has_already_warned THEN WARNED_SET ELSE ins.set
                /\ unsupLog' = [unsupLog EXCEPT ![e.number] = Append(@, level)]
                /\ asserts' = asserts
                /\ IF strace = "failed"
                   THEN /\ inv' = [inv EXCEPT ![w].level = level,
                                              ![w].inserted = ~e.has_already_warned,
                                              ![w].events = logged,
                                              ![w].panic = "strace",
                                              ![w].rv = Panic]
                        /\ pc' = [pc EXCEPT ![w] = "panicked"]
                   ELSE /\ inv' = [inv EXCEPT ![w].level = level,
                                              ![w].inserted = ~e.has_already_warned,
                                              ![w].events = logged
                                                  \o PostTrace(rv, e.was_blocked) \o Return(rv),
                                              ![w].rv = rv]
                        /\ pc' = [pc EXCEPT ![w] = "idle"]
    /\ UNCHANGED <<counter, hasCounter, addOnes, blocks, maxLevel, entries, fvars, cvars, mvars>>

----------------------------------------------------------------------------
(* The state the dispatcher starts in, and what it draws *)

NoInvocation ==
    [ number |-> 0, args |-> [i \in 1..6 |-> ZeroWord], was_blocked |-> FALSE,
      route |-> "", has_already_warned |-> FALSE,
      handler |-> "", handler_calls |-> 0, handler_rv |-> HNone,
      level |-> "", inserted |-> FALSE, panic |-> "", events |-> << >>,
      earlier |-> << >>, rv |-> NoRv ]

InitDispatcher ==
    /\ WARNED_SET = << >>
    /\ pc = [w \in Workers |-> "idle"]
    /\ inv = [w \in Workers |-> NoInvocation]
    /\ counter = [w \in Workers |-> [n \in CounterNames |-> 0]]
    /\ hasCounter \in BOOLEAN
    /\ addOnes = [w \in Workers |-> 0]
    /\ blocks = [w \in Workers |-> 0]
    /\ unsupLog = [n \in Numbers |-> << >>]
    /\ asserts = 0
    /\ maxLevel \in Levels
    /\ entries = 0

\* what the handler returns, for the numbers that reach one
HandlerInputs(number) ==
    IF Route(number) \in {"emulated", "custom"} THEN HandlerResults ELSE { HNone }

\* what log_syscall_simple does in the native arm, for the numbers that reach it
NativeStraceInputs(number) ==
    IF Route(number) = "native" THEN StraceOutcomes ELSE { "disabled" }

----------------------------------------------------------------------------
(* The descriptor table and get_descriptor *)

EBADF == 9

Descriptors == { "d1", "d2" }

\* an fd as a caller passes it (any integer type), kept as two limbs:
\* its value is hi * 2^16 + lo with 0 <= lo < 2^16; hi < 0 is a negative fd
Fd(hi, lo) == [hi |-> hi, lo |-> lo]

\* the fds the model draws: 0 to 3, -1, i32::MAX, 2^31 + 1, u32::MAX, 2^32 + 2
FdSamples ==
    { Fd(0, 0), Fd(0, 1), Fd(0, 2), Fd(0, 3), Fd(0 - 1, Limb - 1),
      Fd(Limb \div 2 - 1, Limb - 1), Fd(Limb \div 2, 1), Fd(Limb - 1, Limb - 1),
      Fd(Limb, 2) }

\* fd.try_into() to a DescriptorHandle: << h >> is Ok(h), << >> is Err; a handle
\* is a non-negative value of the signed-int range
TryIntoDescriptorHandle(fd) ==
    IF fd.hi >= 0 /\ fd.hi < Limb \div 2 THEN << fd.hi * Limb + fd.lo >> ELSE << >>

\* DescriptorTable::get / get_mut: << d >> is Some(d), << >> is None
table_get(table, handle) ==
    IF handle \in DOMAIN table THEN << table[handle] >> ELSE << >>

FdOk(desc, mutable) ==
    [tag |-> "Ok", desc |-> desc, errno |-> 0, consulted |-> TRUE, mutable |-> mutable]
FdErr(errno, consulted) ==
    [tag |-> "Err", desc |-> "", errno |-> errno, consulted |-> consulted, mutable |-> FALSE]

\* get_descriptor, were the fd cast to the handle's width instead of converted
get_descriptor_Cast(table, fd) ==
    LET handle == (fd.hi % (Limb \div 2)) * Limb + fd.lo
    IN  IF table_get(table, handle) # << >>
        THEN FdOk(table_get(table, handle)[1], FALSE)
        ELSE FdErr(EBADF, TRUE)

\* SyscallHandler::get_descriptor; "consulted" tells whether descriptor_table.get ran
get_descriptor(table, fd) ==
    LET handle == TryIntoDescriptorHandle(fd)
    IN  IF handle = << >> THEN FdErr(EBADF, FALSE)
        ELSE IF table_get(table, handle[1]) # << >>
        THEN FdOk(table_get(table, handle[1])[1], FALSE)
        ELSE FdErr(EBADF, TRUE)

\* SyscallHandler::get_descriptor_mut
get_descriptor_mut(table, fd) ==
    LET handle == TryIntoDescriptorHandle(fd)
    IN  IF handle = << >> THEN FdErr(EBADF, FALSE)
        ELSE IF table_get(table, handle[1]) # << >>
        THEN FdOk(table_get(table, handle[1])[1], TRUE)
        ELSE FdErr(EBADF, TRUE)

NoLookup == [op |-> "", fd |-> Fd(0, 0), ret |-> FdErr(0, FALSE)]

InitTable ==
    /\ descriptor_table = << >>
    /\ lookup = NoLookup

\* the lowest handle the table does not hold
LowestFree(table) == CHOOSE h \in 0..MaxDescriptors : h \notin DOMAIN table /\
                         \A k \in 0..(h - 1) : k \in DOMAIN table

\* a descriptor is registered at the lowest free handle; the reference a
\* lookup returned borrows the table and is gone by then
Register(desc) ==
    /\ Cardinality(DOMAIN descriptor_table) < MaxDescriptors
    /\ descriptor_table' =
           [h \in DOMAIN descriptor_table \cup {LowestFree(descriptor_table)} |->
               IF h \in DOMAIN descriptor_table THEN descriptor_table[h] ELSE desc]
    /\ lookup' = NoLookup
    /\ UNCHANGED <<dvars, cvars, mvars>>

\* the descriptor at a handle is closed
Deregister(handle) ==
    /\ handle \in DOMAIN descriptor_table
    /\ descriptor_table' = [h \in DOMAIN descriptor_table \ {handle} |-> descriptor_table[h]]
    /\ lookup' = NoLookup
    /\ UNCHANGED <<dvars, cvars, mvars>>

\* a handler looks an fd up
GetDescriptor(fd) ==
    /\ lookup' = [op |-> "get_descriptor", fd |-> fd,
                  ret |-> get_descriptor(descriptor_table, fd)]
    /\ UNCHANGED <<descriptor_table, dvars, cvars, mvars>>

GetDescriptorMut(fd) ==
    /\ lookup' = [op |-> "get_descriptor_mut", fd |-> fd,
                  ret |-> get_descriptor_mut(descriptor_table, fd)]
    /\ UNCHANGED <<descriptor_table, dvars, cvars, mvars>>

NextFd ==
    \/ \E desc \in Descriptors : Register(desc)
    \/ \E handle \in 0..MaxDescriptors : Deregister(handle)
    \/ \E fd \in FdSamples : GetDescriptor(fd)
    \/ \E fd \in FdSamples : GetDescriptorMut(fd)

----------------------------------------------------------------------------
(* SyscallHandlerFn::call: the arguments a handler of N parameters gets *)

\* the numbers of parameters SyscallHandlerFn is implemented for
Arities == 0..6

\* T::from(SysCallReg): the whole word for u64, its low 32 bits for u32, its
\* low 32 bits read as a signed value for i32
FromSysCallReg(type, reg) ==
    CASE type = "u64" -> reg
      [] type = "u32" -> << reg[3], reg[4] >>
      [] type = "i32" ->
            (IF reg[3] >= Limb \div 2 THEN reg[3] - Limb ELSE reg[3]) * Limb + reg[4]

\* SysCallArgs::get(i): the i-th of the six argument words, i counted from 0
SysCallArgs_get(args, i) == args[i + 1]

\* ArgsRead, were the first two parameters taken from each other's word
ArgsRead_FirstTwoSwapped(arity) ==
    CASE arity = 0 -> << >>
      [] arity = 1 -> << 0 >>
      [] arity = 2 -> << 1, 0 >>
      [] arity = 3 -> << 1, 0, 2 >>
      [] arity = 4 -> << 1, 0, 2, 3 >>
      [] arity = 5 -> << 1, 0, 2, 3, 4 >>
      [] arity = 6 -> << 1, 0, 2, 3, 4, 5 >>

\* the i of the "ctx.args.get(i).into()" each impl passes, in the order of the
\* handler's parameters after ctx
ArgsRead(arity) ==
    CASE arity = 0 -> << >>
      [] arity = 1 -> << 0 >>
      [] arity = 2 -> << 0, 1 >>
      [] arity = 3 -> << 0, 1, 2 >>
      [] arity = 4 -> << 0, 1, 2, 3 >>
      [] arity = 5 -> << 0, 1, 2, 3, 4 >>
      [] arity = 6 -> << 0, 1, 2, 3, 4, 5 >>

\* self(ctx, ctx.args.get(0).into(), ...): the words read and the parameters
\* the handler is called with
call_args(arity, types, args) ==
    LET reads == ArgsRead(arity)
    IN  [ arity |-> arity, types |-> types, args |-> args, reads |-> reads,
          params |-> [i \in 1..Len(reads) |->
                         FromSysCallReg(types[i], SysCallArgs_get(args, reads[i]))] ]

\* the SysCallArgs the model draws here: words that differ from one position
\* to the next, some wider than 32 bits, some negative as an i32
CallArgSamples ==
    { [i \in 1..6 |-> Word(0, 0, 0, i)],
      [i \in 1..6 |-> Word(0, i, Limb - i, i)],
      [i \in 1..6 |-> Word(Limb - 1, Limb - 1, Limb - 1, Limb - i)] }

\* the parameter types of the handlers the model draws: a handler of N
\* parameters has the first N types of one of these, so that each type occurs
\* at each position
TypeSamples ==
    { << "u64", "u32", "i32", "u64", "u32", "i32" >>,
      << "u32", "i32", "u64", "u32", "i32", "u64" >>,
      << "i32", "u64", "u32", "i32", "u64", "u32" >> }

NoCall == [ arity |-> 0 - 1, types |-> << >>, args |-> [i \in 1..6 |-> ZeroWord],
            reads |-> << >>, params |-> << >> ]

InitCall == handlerCall = NoCall

\* handle!(f) calls a handler of some arity and parameter types
HandlerCall(arity, types, args) ==
    /\ handlerCall' = call_args(arity, types, args)
    /\ UNCHANGED <<dvars, fvars, mvars>>

NextCall ==
    \E arity \in Arities :
        \E types \in TypeSamples, args \in CallArgSamples :
            HandlerCall(arity, SubSeq(types, 1, arity), args)

----------------------------------------------------------------------------
(* run_shadow (src/main/core/main.rs): the steps of the simulator's start,  *)
(* the run of the controller and the end.  Each fallible step draws whether *)
(* it succeeds.                                                             *)

\* log::LevelFilter, ordered: Off < Error < Warn < Info < Debug < Trace
LevelFilterRank(filter) == IF filter = "Off" THEN 0 ELSE LevelRank(filter)

\* the general.log_level values the model draws
ConfigLevels == { "Info", "Debug", "Trace" }

NoOptions ==
    [ show_build_info |-> FALSE, shm_cleanup |-> FALSE, show_config |-> FALSE,
      gdb |-> FALSE ]

NoConfig == [ use_cpu_pinning |-> FALSE, use_sched_fifo |-> FALSE, log_level |-> "Off" ]

NoResult == [ kind |-> "none", at |-> "" ]

InitMain ==
    /\ mpc = "glib"
    /\ options = NoOptions
    /\ shadow_config = NoConfig
    /\ logger = [ init |-> FALSE, buffering |-> FALSE, max_level |-> "Off" ]
    /\ warnings = {}
    /\ passed = {}
    /\ ran = FALSE
    /\ result = NoResult

\* run_shadow goes on to its next step
Proceed(next) == mpc' = next /\ result' = result

\* "return Ok(())", "return Err(..)", std::process::exit and a panic
Finish(at, kind) ==
    /\ mpc' = (CASE kind \in {"Ok", "Err"} -> "returned"
                 [] kind = "exit" -> "exited"
                 [] kind = "panic" -> "panicked")
    /\ result' = [ kind |-> kind, at |-> at ]

\* Question, were the Err of a step dropped and the function to go on
Question_Ignored(ok, step, next) ==
    /\ Proceed(next)
    /\ passed' = IF ok THEN passed \cup {step} ELSE passed

\* "step(..)?" and "if step() != 0 { return Err(..) }": the function goes on
\* if the step succeeded and returns its Err otherwise
Question(ok, step, next) ==
    IF ok
    THEN Proceed(next) /\ passed' = passed \cup {step}
    ELSE Finish(step, "Err") /\ passed' = passed

\* "if let Err(e) = step() { log::warn!(..) }": the function goes on either way
WarnOnly(ok, step, next) ==
    /\ Proceed(next)
    /\ passed' = IF ok THEN passed \cup {step} ELSE passed
    /\ warnings' = IF ok THEN warnings ELSE warnings \cup {step}

\* shadow_logger::set_buffering_enabled(enabled)
set_buffering_enabled(enabled) == logger' = [logger EXCEPT !.buffering = enabled]

\* buffer_log, were buffering enabled at every level
buffer_log_Always(max_level) == TRUE

\* let buffer_log = log::max_level() < log::LevelFilter::Trace
buffer_log(max_level) == LevelFilterRank(max_level) < LevelFilterRank("Trace")

\* if unsafe { c::main_checkGlibVersion() } != 0 { return Err(..) }
CheckGlibVersion(ok) ==
    /\ mpc = "glib"
    /\ Question(ok, "glib", "sigprocmask")
    /\ UNCHANGED <<options, shadow_config, logger, warnings, ran, dvars, fvars, cvars>>

\* signal::sigprocmask(SIG_SETMASK, empty set, None)?
Sigprocmask(ok) ==
    /\ mpc = "sigprocmask"
    /\ Question(ok, "sigprocmask", "cli")
    /\ UNCHANGED <<options, shadow_config, logger, warnings, ran, dvars, fvars, cvars>>

\* CliOptions::try_parse_from(args): the options, or the message and exit
ParseCli(ok, opts) ==
    /\ mpc = "cli"
    /\ IF ok
       THEN Proceed("build_info") /\ options' = opts
       ELSE Finish("cli", "exit") /\ options' = options
    /\ UNCHANGED <<shadow_config, logger, warnings, passed, ran, dvars, fvars, cvars>>

\* if options.show_build_info { main_printBuildInfo(); exit(0) }
ShowBuildInfo ==
    /\ mpc = "build_info"
    /\ IF options.show_build_info
       THEN Finish("build_info", "exit")
       ELSE Proceed("shm_option")
    /\ UNCHANGED <<options, shadow_config, logger, warnings, passed, ran, dvars, fvars, cvars>>

\* if options.shm_cleanup { shm_cleanup(..)?; exit(0) }
ShmCleanupOption(ok) ==
    /\ mpc = "shm_option"
    /\ IF ~options.shm_cleanup THEN Proceed("open") /\ passed' = passed
       ELSE IF ok THEN Finish("shm_option", "exit") /\ passed' = passed \cup {"shm_option"}
       ELSE Finish("shm_option", "Err") /\ passed' = passed
    /\ UNCHANGED <<options, shadow_config, logger, warnings, ran, dvars, fvars, cvars>>

\* std::fs::File::open(&config_filename)?
OpenConfig(ok) ==
    /\ mpc = "open"
    /\ Question(ok, "open", "parse")
    /\ UNCHANGED <<options, shadow_config, logger, warnings, ran, dvars, fvars, cvars>>

\* serde_yaml::from_reader(file)? and ConfigOptions::new(config_file, options)
ParseConfig(ok, config) ==
    /\ mpc = "parse"
    /\ Question(ok, "parse", "show_config")
    /\ shadow_config' = IF ok THEN config ELSE shadow_config
    /\ UNCHANGED <<options, logger, warnings, ran, dvars, fvars, cvars>>

\* if options.show_config { eprintln!(..); return Ok(()) }
ShowConfig ==
    /\ mpc = "show_config"
    /\ IF options.show_config
       THEN Finish("show_config", "Ok")
       ELSE Proceed("logger")
    /\ UNCHANGED <<options, shadow_config, logger, warnings, passed, ran, dvars, fvars, cvars>>

\* runConfigHandlers, the object counters, shadow_logger::init().unwrap(),
\* logger_setDefault, set_buffering_enabled(false), log::set_max_level and
\* the warning about compiled-out levels
StartLogging(ok, compiled_out) ==
    /\ mpc = "logger"
    /\ IF ok
       THEN /\ Proceed("shm_cleanup")
            /\ logger' = [ init |-> TRUE, buffering |-> FALSE,
                           max_level |-> shadow_config.log_level ]
            /\ warnings' = IF compiled_out THEN warnings \cup {"compiled_out"} ELSE warnings
       ELSE /\ Finish("logger", "panic")
            /\ UNCHANGED <<logger, warnings>>
    /\ UNCHANGED <<options, shadow_config, passed, ran, dvars, fvars, cvars>>

\* if let Err(e) = shm_cleanup::shm_cleanup(..) { log::warn!(..) }
ShmCleanup(ok) ==
    /\ mpc = "shm_cleanup"
    /\ WarnOnly(ok, "shm_cleanup", "pinning")
    /\ UNCHANGED <<options, shadow_config, logger, ran, dvars, fvars, cvars>>

\* if use_cpu_pinning { if affinity_initPlatformInfo() != 0 { return Err(..) } }
InitPlatformInfo(ok) ==
    /\ mpc = "pinning"
    /\ IF shadow_config.use_cpu_pinning
       THEN Question(ok, "platform_info", "nofile")
       ELSE Proceed("nofile") /\ passed' = passed
    /\ UNCHANGED <<options, shadow_config, logger, warnings, ran, dvars, fvars, cvars>>

\* raise_rlimit(RLIMIT_NOFILE)?
RaiseNofile(ok) ==
    /\ mpc = "nofile"
    /\ Question(ok, "nofile", "nproc")
    /\ UNCHANGED <<options, shadow_config, logger, warnings, ran, dvars, fvars, cvars>>

\* raise_rlimit(RLIMIT_NPROC)?
RaiseNproc(ok) ==
    /\ mpc = "nproc"
    /\ Question(ok, "nproc", "fifo")
    /\ UNCHANGED <<options, shadow_config, logger, warnings, ran, dvars, fvars, cvars>>

\* if use_sched_fifo { set_sched_fifo()?; .. }
SetSchedFifo(ok) ==
    /\ mpc = "fifo"
    /\ IF shadow_config.use_sched_fifo
       THEN Question(ok, "sched_fifo", "aslr")
       ELSE Proceed("aslr") /\ passed' = passed
    /\ UNCHANGED <<options, shadow_config, logger, warnings, ran, dvars, fvars, cvars>>

\* match disable_aslr() { Ok(()) => log::debug!(..), Err(e) => log::warn!(..) }
DisableAslr(ok) ==
    /\ mpc = "aslr"
    /\ WarnOnly(ok, "disable_aslr", "sidechannel")
    /\ UNCHANGED <<options, shadow_config, logger, ran, dvars, fvars, cvars>>

\* if main_sidechannelMitigationsEnabled() { log::warn!(..) }, main_logBuildInfo,
\* log_environment
CheckSidechannel(enabled) ==
    /\ mpc = "sidechannel"
    /\ Proceed("gdb")
    /\ warnings' = IF enabled THEN warnings \cup {"sidechannel"} ELSE warnings
    /\ UNCHANGED <<options, shadow_config, logger, passed, ran, dvars, fvars, cvars>>

\* if options.gdb { pause_for_gdb_attach()? }
PauseForGdb(ok) ==
    /\ mpc = "gdb"
    /\ IF options.gdb
       THEN Question(ok, "gdb", "simconfig")
       ELSE Proceed("simconfig") /\ passed' = passed
    /\ UNCHANGED <<options, shadow_config, logger, warnings, ran, dvars, fvars, cvars>>

\* SimConfig::new(..)? and Controller::new(sim_config, &shadow_config)
NewSimConfig(ok) ==
    /\ mpc = "simconfig"
    /\ Question(ok, "simconfig", "buffering")
    /\ UNCHANGED <<options, shadow_config, logger, warnings, ran, dvars, fvars, cvars>>

\* set_buffering_enabled(buffer_log), the last statement before controller.run()
EnableBuffering ==
    /\ mpc = "buffering"
    /\ Proceed("running")
    /\ set_buffering_enabled(buffer_log(logger.max_level))
    /\ UNCHANGED <<options, shadow_config, warnings, passed, ran, dvars, fvars, cvars>>

\* controller.run().context("Failed to run the simulation")?
ControllerRun(ok) ==
    /\ mpc = "running"
    /\ ran' = TRUE
    /\ IF ok THEN Proceed("cleanup") ELSE Finish("run", "Err")
    /\ UNCHANGED <<options, shadow_config, logger, warnings, passed, dvars, fvars, cvars>>

\* set_buffering_enabled(false) and Ok(())
DisableBuffering ==
    /\ mpc = "cleanup"
    /\ set_buffering_enabled(FALSE)
    /\ Finish("end", "Ok")
    /\ UNCHANGED <<options, shadow_config, warnings, passed, ran, dvars, fvars, cvars>>

\* the CliOptions and the configurations the model draws
OptionSamples ==
    [ show_build_info : BOOLEAN, shm_cleanup : BOOLEAN, show_config : BOOLEAN,
      gdb : BOOLEAN ]

ConfigSamples ==
    [ use_cpu_pinning : BOOLEAN, use_sched_fifo : BOOLEAN, log_level : ConfigLevels ]

NextMain ==
    \/ \E ok \in BOOLEAN : CheckGlibVersion(ok)
    \/ \E ok \in BOOLEAN : Sigprocmask(ok)
    \/ \E ok \in BOOLEAN, opts \in OptionSamples : ParseCli(ok, opts)
    \/ ShowBuildInfo
    \/ \E ok \in BOOLEAN : ShmCleanupOption(ok)
    \/ \E ok \in BOOLEAN : OpenConfig(ok)
    \/ \E ok \in BOOLEAN, config \in ConfigSamples : ParseConfig(ok, config)
    \/ ShowConfig
    \/ \E ok \in BOOLEAN, compiled_out \in BOOLEAN : StartLogging(ok, compiled_out)
    \/ \E ok \in BOOLEAN : ShmCleanup(ok)
    \/ \E ok \in BOOLEAN : InitPlatformInfo(ok)
    \/ \E ok \in BOOLEAN : RaiseNofile(ok)
    \/ \E ok \in BOOLEAN : RaiseNproc(ok)
    \/ \E ok \in BOOLEAN : SetSchedFifo(ok)
    \/ \E ok \in BOOLEAN : DisableAslr(ok)
    \/ \E enabled \in BOOLEAN : CheckSidechannel(enabled)
    \/ \E ok \in BOOLEAN : PauseForGdb(ok)
    \/ \E ok \in BOOLEAN : NewSimConfig(ok)
    \/ EnableBuffering
    \/ \E ok \in BOOLEAN : ControllerRun(ok)
    \/ DisableBuffering

----------------------------------------------------------------------------
(* The workers *)

\* a thread's syscall reaches the dispatcher for the first time
FirstEntry(w) ==
    /\ pc[w] = "idle"
    /\ ~WasBlocked(w)
    /\ entries < MaxEntries
    /\ \E number \in Numbers, args \in ArgSamples :
          \E handler_rv \in HandlerInputs(number), strace \in NativeStraceInputs(number) :
            SyscallHandler_syscall(w, number, args, FALSE, handler_rv, strace)

\* the scheduler re-enters a blocked syscall with the same SysCallArgs
Resume(w) ==
    /\ pc[w] = "idle"
    /\ WasBlocked(w)
    /\ entries < MaxEntries
    /\ \E handler_rv \in HandlerInputs(inv[w].number),
          strace \in NativeStraceInputs(inv[w].number) :
            SyscallHandler_syscall(w, inv[w].number, inv[w].args, TRUE, handler_rv, strace)

\* a worker in the unsupported arm goes on from the lookup
Unsupported(w) ==
    \E strace \in StraceOutcomes : UnsupportedArm(w, strace)

Next ==
    \E w \in Workers : FirstEntry(w) \/ Resume(w) \/ Unsupported(w)

Init == InitDispatcher /\ InitTable /\ InitCall /\ InitMain

Spec == Init /\ [][Next]_vars

\* the same workers when the dispatcher's invocations run one after another:
\* none is entered while another is between its lookup and its insert
Sequential == \A w \in Workers : pc[w] # "unsupported"

NextSeq ==
    \E w \in Workers :
        \/ Sequential /\ FirstEntry(w)
        \/ Sequential /\ Resume(w)
        \/ Unsupported(w)

SpecSeq == Init /\ [][NextSeq]_vars

\* one process's handlers looking descriptors up while descriptors come and go
SpecFd == Init /\ [][NextFd]_vars

\* handlers of every arity being called on argument words
SpecCall == Init /\ [][NextCall]_vars

\* one call of run_shadow, from its first statement to its end
SpecMain == Init /\ [][NextMain]_vars

----------------------------------------------------------------------------
(* Properties of the dispatcher *)

\* worker w has entered the dispatcher and its invocation has ended
Ended(w) == inv[w].route # "" /\ pc[w] # "unsupported"

Results == { "Ok", "Failed", "Native", "Blocked" }

\* C1, as stated: every invocation that ends returns one of Ok, Failed,
\* Native and Blocked.  It is stated here for the invocations whose strace
\* write succeeds and whose insert assertion holds, so that what refutes it
\* is the dispatcher's own design.
C1_AlwaysReturns ==
    \A w \in Workers :
        Ended(w) /\ inv[w].panic \notin {"strace", "assert"} => inv[w].rv.tag \in Results

\* C1, amended: every invocation ends (one that is between the lookup and the
\* insert of the unsupported arm can always go on), and it ends either
\* returning exactly one of Ok, Failed, Native, Blocked or in a panic; it
\* panics for every shim-only syscall, and otherwise only when the strace
\* write of the native or unsupported arm fails or the insert assertion of
\* the unsupported arm fails; an emulated or custom syscall always returns.
C1_ReturnsOrPanics ==
    \A w \in Workers :
        /\ pc[w] = "unsupported" => ENABLED Unsupported(w)
        /\ Ended(w) =>
            /\ inv[w].rv.tag \in Results \cup {"Panic"}
            /\ inv[w].rv.tag = "Panic" <=> inv[w].panic # ""
            /\ inv[w].route = "shim_only" <=> inv[w].panic = "shim"
            /\ inv[w].panic = "strace" => inv[w].route \in {"native", "unsupported"}
            /\ inv[w].panic = "assert" =>
                   inv[w].route = "unsupported" /\ ~inv[w].has_already_warned
            /\ inv[w].rv.tag \in Results <=> pc[w] = "idle"

\* C1's case: a resumed syscall has returned Ok on one worker and a shim-only
\* syscall has ended in a panic on another
C1_Witness ==
    \E w1, w2 \in Workers :
        /\ Ended(w1) /\ inv[w1].was_blocked /\ inv[w1].rv.tag = "Ok"
        /\ Ended(w2) /\ inv[w2].route = "shim_only" /\ inv[w2].rv.tag = "Panic"

\* C2: a syscall number outside the emulated, custom, shim-only and native
\* sets, named or not, ends with Failed(ENOSYS) and no handler call.
C2_UnsupportedIsENOSYS ==
    \A w \in Workers :
        Ended(w) /\ Route(inv[w].number) = "unsupported" =>
            inv[w].rv = Failed(ENOSYS) /\ inv[w].handler_calls = 0

\* a sequence of levels that is one Warn followed by Debugs only
WarnThenDebug(levels) ==
    levels = << >> \/ (levels[1] = "Warn" /\ \A i \in 2..Len(levels) : levels[i] = "Debug")

\* C3: when invocations run one after another, the log calls of each
\* unsupported number are one Warn followed by Debugs only, every invocation
\* of the unsupported arm makes its log call (none stops at the assertion),
\* and a number is in WARNED_SET exactly when it has been logged.
C3_WarnOnceThenDebug ==
    /\ asserts = 0
    /\ \A n \in Numbers :
        /\ WarnThenDebug(unsupLog[n])
        /\ has_already_warned(n) <=> unsupLog[n] # << >>
    /\ \A w \in Workers :
        Ended(w) /\ inv[w].route = "unsupported" =>
            inv[w].level = (IF inv[w].has_already_warned THEN "Debug" ELSE "Warn")

\* C3's case: ptrace was dispatched twice and the unnamed number once
C3_Witness ==
    /\ unsupLog[101] = << "Warn", "Debug" >>
    /\ unsupLog[99999] = << "Warn" >>

\* C4: whatever the interleaving, every invocation of the unsupported arm
\* logs at Warn or at Debug and returns Failed(ENOSYS), and each number is
\* logged at Warn once.  Stated for the invocations whose strace write does
\* not fail.
C4_SingleWinner ==
    /\ \A w \in Workers :
        Ended(w) /\ inv[w].route = "unsupported" /\ inv[w].panic # "strace" =>
            inv[w].rv = Failed(ENOSYS) /\ inv[w].level \in {"Warn", "Debug"}
    /\ \A n \in Numbers : WarnThenDebug(unsupLog[n])

\* C5: with a counter, the add_one calls made for a thread's current logical
\* syscall, over its first entry and all its resumptions, are exactly one,
\* and that one was made for the syscall's name; without a counter none is made.
C5_CountedOnce ==
    \A w \in Workers :
        inv[w].route # "" =>
            /\ addOnes[w] = (IF hasCounter THEN 1 ELSE 0)
            /\ hasCounter => counter[w][syscall_name_of(inv[w].number)] >= 1
            /\ ~hasCounter => \A name \in CounterNames : counter[w][name] = 0

\* C5's case: a syscall blocked twice, was resumed twice and then returned Ok,
\* and the thread's counter shows one call
C5_Witness ==
    \E w \in Workers :
        /\ hasCounter /\ blocks[w] = 2 /\ inv[w].was_blocked /\ inv[w].rv.tag = "Ok"
        /\ counter[w][syscall_name_of(inv[w].number)] = 1

\* C6: a shim-only syscall that reaches the dispatcher ends in the panic and
\* the worker never gets a SyscallResult.
C6_ShimOnlyIsFatal ==
    \A w \in Workers :
        inv[w].route # "" /\ IsNamed(inv[w].number, ShimOnly) =>
            /\ inv[w].rv.tag = "Panic" /\ inv[w].panic = "shim"
            /\ pc[w] = "panicked"
            /\ inv[w].handler_calls = 0

\* C6's case: clock_gettime and sched_yield have both reached the dispatcher
C6_Witness ==
    \E w1, w2 \in Workers :
        /\ inv[w1].route # "" /\ inv[w1].number = 228 /\ pc[w1] = "panicked"
        /\ inv[w2].route # "" /\ inv[w2].number = 24 /\ pc[w2] = "panicked"

\* C7: a syscall on the native list ends with Native and no handler call.
C7_NativeReturnsNative ==
    \A w \in Workers :
        Ended(w) /\ IsNamed(inv[w].number, Native) =>
            inv[w].rv = NativeRv /\ inv[w].handler_calls = 0

\* what the arm of an invocation produces, logging left aside
ResultWithoutLogging(i) ==
    CASE i.route \in {"emulated", "custom"} -> call(i.handler_rv)
      [] i.route = "shim_only"   -> Panic
      [] i.route = "native"      -> NativeRv
      [] i.route = "unsupported" -> Failed(ENOSYS)

\* C8: the outcome of an invocation is the one its arm produces, whatever the
\* log level and whatever log_syscall_simple does.  Stated for the
\* invocations whose insert assertion holds.
C8_LoggingIsNeutral ==
    \A w \in Workers :
        Ended(w) /\ inv[w].panic # "assert" => inv[w].rv = ResultWithoutLogging(inv[w])

\* C10: an emulated or custom syscall calls its handler once per entry and
\* returns what the handler returned: Ok(v) as Ok of the word that holds v,
\* Failed, Native and Blocked as they are.
C10_HandlerResultIsReturned ==
    \A w \in Workers :
        Ended(w) /\ Route(inv[w].number) \in {"emulated", "custom"} =>
            LET h == inv[w].handler_rv
                rv == inv[w].rv
            IN  /\ inv[w].handler_calls = 1
                /\ inv[w].handler = HandlerOf(inv[w].number)
                /\ rv.tag = h.tag
                /\ h.tag = "Ok" => FromRegI64(rv.reg) = h.val /\ rv.errno = 0 /\ rv.cond = 0
                /\ h.tag = "Failed" => rv = Failed(h.errno)
                /\ h.tag = "Native" => rv = NativeRv
                /\ h.tag = "Blocked" => rv = Blocked(h.cond)

\* C10's case: a handler returned -1 and the dispatcher returned the word of
\* all ones, and a custom handler's Blocked came back unchanged
C10_Witness ==
    \E w1, w2 \in Workers :
        /\ Ended(w1) /\ inv[w1].route = "emulated" /\ inv[w1].handler_rv = HOk(-1)
        /\ inv[w1].rv = Ok(Word(65535, 65535, 65535, 65535))
        /\ Ended(w2) /\ inv[w2].route = "custom" /\ inv[w2].rv = Blocked(1)

\* C13: under every interleaving of invocations that reach the unsupported
\* arm, the assertion that the insert into WARNED_SET added a new element
\* holds, and no invocation ends at it.
C13_InsertAssertionHolds ==
    /\ asserts = 0
    /\ \A w \in Workers : inv[w].panic # "assert"

\* the numbers a value of WARNED_SET holds
Warned(warned_set) == IF warned_set = << >> THEN {} ELSE warned_set[1]

\* C14: WARNED_SET holds only numbers that are routed to the unsupported arm
\* and that an invocation has taken through that arm (its log call is on
\* record); no step removes a number; a number is added only as the number of
\* an invocation that is leaving the unsupported arm; and the entry of an
\* invocation, of whatever category, leaves the set as it is, so that an
\* emulated, custom, native or shim-only invocation never changes it.
C14_OnlyUnsupportedAndGrows ==
    /\ [](\A n \in Warned(WARNED_SET) :
             n \in Numbers /\ Route(n) = "unsupported" /\ unsupLog[n] # << >>)
    /\ [][ /\ Warned(WARNED_SET) \subseteq Warned(WARNED_SET')
           /\ \A n \in Warned(WARNED_SET') \ Warned(WARNED_SET) :
                 \E w \in Workers :
                     /\ pc[w] = "unsupported" /\ pc'[w] # "unsupported"
                     /\ inv[w].number = n /\ inv[w].route = "unsupported"
           /\ entries' # entries => WARNED_SET' = WARNED_SET
           /\ \A w \in Workers :
                 inv'[w] # inv[w] /\ inv'[w].route # "unsupported" =>
                     WARNED_SET' = WARNED_SET ]_vars

\* C14's case: ptrace and the unnamed number are in WARNED_SET and an
\* emulated syscall has run and returned after they were put there
C14_Witness ==
    /\ WARNED_SET = << {101, 99999} >>
    /\ \E w \in Workers : Ended(w) /\ inv[w].route = "emulated" /\ entries = 3

\* the step may be an entry of worker w into the dispatcher: w was idle and
\* the step touches no other worker
EntryOf(w) ==
    /\ pc[w] = "idle"
    /\ inv'[w].route # ""
    /\ \A v \in Workers \ {w} :
          inv'[v] = inv[v] /\ pc'[v] = pc[v] /\ counter'[v] = counter[v]

\* C15: a first entry with a counter adds exactly one to the count of the
\* syscall's name, or of "unknown-syscall" if the number has none, and to no
\* other count, before the arm is picked and whatever the arm is: the call is
\* counted also when it then ends in the shim-only panic or goes on to return
\* ENOSYS.  Without a counter no count changes, and with or without one the
\* invocation ends as its arm alone decides.
C15_FirstEntryCountedOnce ==
    [][ entries' # entries =>
        \E w \in Workers :
          EntryOf(w) /\
            LET i == inv'[w]
                name == IF to_str(i.number) = << >>
                        THEN "unknown-syscall" ELSE to_str(i.number)[1]
                counted == { k \in 1..Len(i.events) : i.events[k].ev = "COUNT" }
                arm == { k \in 1..Len(i.events) : i.events[k].ev = "ARM" }
            IN  /\ i.route \in {"emulated", "custom", "native", "shim_only", "unsupported"}
                /\ hasCounter /\ ~i.was_blocked =>
                       /\ counter'[w][name] = counter[w][name] + 1
                       /\ \A other \in CounterNames \ {name} :
                              counter'[w][other] = counter[w][other]
                       /\ Cardinality(counted) = 1
                       /\ \A k \in counted : i.events[k].text = name
                       /\ \A k \in counted, a \in arm : k < a
                /\ ~hasCounter => counter' = counter /\ counted = {}
                /\ i.route = "shim_only" => pc'[w] = "panicked"
                /\ i.route = "unsupported" => pc'[w] = "unsupported"
                /\ i.route \in {"emulated", "custom", "native"} =>
                       i.rv = (IF i.panic # "" THEN Panic ELSE ResultWithoutLogging(i))
      ]_vars

\* C15's case: with a counter, a shim-only clock_gettime was counted and then
\* ended in the panic, and the number without a name was counted under
\* "unknown-syscall" and then returned ENOSYS
C15_Witness ==
    \E w1, w2 \in Workers :
        /\ hasCounter
        /\ inv[w1].number = 228 /\ pc[w1] = "panicked"
        /\ counter[w1] = [n \in CounterNames |-> IF n = "clock_gettime" THEN 1 ELSE 0]
        /\ inv[w2].number = 99999 /\ pc[w2] = "idle" /\ inv[w2].rv = Failed(ENOSYS)
        /\ counter[w2] = [n \in CounterNames |-> IF n = "unknown-syscall" THEN 1 ELSE 0]

\* the place of an event in the dispatcher's text: the pre-call trace, the
\* counter, the match, what the arm does, the post-call trace, the return
Stage(ev) ==
    CASE ev = "PRE"    -> 1
      [] ev = "COUNT"  -> 2
      [] ev = "ARM"    -> 3
      [] ev \in {"HANDLER", "NATIVE", "UNSUPPORTED", "STRACE", "PANIC"} -> 4
      [] ev = "POST"   -> 5
      [] ev = "RETURN" -> 6

\* the events of one entry are in the dispatcher's order and none of the
\* pre-call trace, the counter, the match, the post-call trace and the
\* return happens twice
InStageOrder(events) ==
    \A i, j \in 1..Len(events) :
        i < j => /\ Stage(events[i].ev) <= Stage(events[j].ev)
                 /\ Stage(events[i].ev) = Stage(events[j].ev) => Stage(events[i].ev) = 4

Has(events, ev) == \E i \in 1..Len(events) : events[i].ev = ev

\* C12: the events of an invocation come in the order pre-call trace, counter
\* update, one arm, post-call trace, return.  An invocation that returns with
\* tracing on starts with the pre-call trace and ends with the post-call
\* trace, which renders the result that the return then hands back.  A call
\* that blocked has left its post-call trace "<blocked>" and its return
\* behind before the pre-call trace of its resumption, and the traces of the
\* resumption, and only they, carry " (previously BLOCKed)" and "BLOCK -> ".
C12_EventOrder ==
    \A w \in Workers :
        inv[w].route # "" =>
            LET i == inv[w]
                n == Len(i.events)
                m == Len(i.earlier)
                trace == LevelRank("Trace") <= LevelRank(maxLevel)
            IN  /\ InStageOrder(i.events)
                /\ Cardinality({ k \in 1..n : i.events[k].ev = "ARM" }) = 1
                /\ \A k \in 1..n : i.events[k].ev = "ARM" => i.events[k].text = i.route
                /\ Has(i.events, "PRE") <=> trace
                /\ Has(i.events, "POST") => trace /\ i.rv.tag \in Results
                /\ Has(i.events, "RETURN") <=> pc[w] = "idle"
                /\ pc[w] = "idle" =>
                       /\ i.events[n] = [ev |-> "RETURN", text |-> i.rv.tag]
                       /\ trace =>
                            /\ n >= 4
                            /\ i.events[1] =
                                   [ev |-> "PRE",
                                    text |-> IF i.was_blocked
                                             THEN " (previously BLOCKed)" ELSE ""]
                            /\ i.events[n - 1] =
                                   [ev |-> "POST",
                                    text |-> (IF i.was_blocked THEN "BLOCK -> " ELSE "")
                                                \o rv_formatted(i.rv)]
                /\ ~i.was_blocked => i.earlier = << >>
                /\ i.was_blocked =>
                       /\ m >= 3
                       /\ i.earlier[m] = [ev |-> "RETURN", text |-> "Blocked"]
                       /\ trace =>
                            /\ i.earlier[m - 1].ev = "POST"
                            /\ i.earlier[m - 1].text \in {"<blocked>", "BLOCK -> <blocked>"}
                            /\ i.earlier[1] = [ev |-> "PRE", text |-> ""]
                            /\ i.events[1] = [ev |-> "PRE", text |-> " (previously BLOCKed)"]

\* C12's case: with tracing on and a counter, a read blocked, was resumed and
\* returned -1; the log of the thread is that of the first entry, ending with
\* "<blocked>" and the return, and then that of the resumption
C12_Witness ==
    \E w \in Workers :
        /\ inv[w].earlier =
              << [ev |-> "PRE", text |-> ""], [ev |-> "COUNT", text |-> "read"],
                 [ev |-> "ARM", text |-> "emulated"], [ev |-> "HANDLER", text |-> "read"],
                 [ev |-> "POST", text |-> "<blocked>"],
                 [ev |-> "RETURN", text |-> "Blocked"] >>
        /\ inv[w].events =
              << [ev |-> "PRE", text |-> " (previously BLOCKed)"],
                 [ev |-> "ARM", text |-> "emulated"], [ev |-> "HANDLER", text |-> "read"],
                 [ev |-> "POST", text |-> "BLOCK -> -1"],
                 [ev |-> "RETURN", text |-> "Ok"] >>

----------------------------------------------------------------------------
(* Properties of get_descriptor *)

\* the value of an fd is a handle: it is in 0 .. i32::MAX
InHandleRange(fd) == fd.hi >= 0 /\ fd.hi * 2 < Limb

\* C9: get_descriptor and get_descriptor_mut return the descriptor at fd
\* exactly when fd is in the handle range and the table holds a descriptor
\* there; otherwise they return EBADF, and for an fd outside the range they
\* do so without a look at the table.
C9_DescriptorOrEBADF ==
    lookup.op # "" =>
        LET fd == lookup.fd
            ret == lookup.ret
            held == InHandleRange(fd) /\ fd.hi = 0 /\ fd.lo \in DOMAIN descriptor_table
        IN  /\ ret.tag = "Ok" <=> held
            /\ ret.tag = "Ok" => ret.desc = descriptor_table[fd.lo] /\ ret.errno = 0
            /\ ret.tag = "Ok" => (ret.mutable <=> lookup.op = "get_descriptor_mut")
            /\ ret.tag # "Ok" => ret.tag = "Err" /\ ret.errno = EBADF
            /\ ~InHandleRange(fd) => ~ret.consulted
            /\ InHandleRange(fd) => ret.consulted

\* C9's case: with descriptors at 0 and 2 and none at 1, fd 2^31 + 1 was
\* looked up and rejected
C9_Witness ==
    /\ DOMAIN descriptor_table = {0, 2}
    /\ lookup.op = "get_descriptor_mut"
    /\ lookup.fd = Fd(Limb \div 2, 1)
    /\ lookup.ret = FdErr(EBADF, FALSE)

----------------------------------------------------------------------------
(* Properties of SyscallHandlerFn::call *)

\* C11: a handler of N parameters, N from 0 to 6, is called with exactly N
\* arguments; its i-th parameter is the conversion to its type of the i-th
\* argument word; the words read are the first N, each once and in their
\* order, and no word from the N-th on (counted from 0) is read.
C11_FirstNInOrder ==
    handlerCall.arity \in Arities =>
        LET c == handlerCall
        IN  /\ Len(c.params) = c.arity
            /\ \A i \in 1..c.arity : c.params[i] = FromSysCallReg(c.types[i], c.args[i])
            /\ c.reads = [i \in 1..c.arity |-> i - 1]
            /\ \A k \in c.arity..5 : \A i \in 1..Len(c.reads) : c.reads[i] # k

\* C11's case: a handler of six parameters was called on words wider than
\* 32 bits; its second parameter, a u32, got the low half of the second word
\* and its sixth, an i32, the negative value in the low half of the sixth
C11_Witness ==
    /\ handlerCall.arity = 6
    /\ handlerCall.args[2] = Word(0, 2, Limb - 2, 2)
    /\ handlerCall.types[2] = "u32" /\ handlerCall.params[2] = << Limb - 2, 2 >>
    /\ handlerCall.types[6] = "i32" /\ handlerCall.params[6] = 6 - 6 * Limb
    /\ handlerCall.types[1] = "u64" /\ handlerCall.params[1] = Word(0, 1, Limb - 1, 1)

----------------------------------------------------------------------------
(* Properties of run_shadow *)

\* log::max_level() is below Trace
BelowTrace == LevelFilterRank(logger.max_level) < LevelFilterRank("Trace")

\* run_shadow is between set_buffering_enabled(buffer_log) and
\* set_buffering_enabled(false): at controller.run() or just past it
AtTheRun == mpc \in {"running", "cleanup"}

\* C16, as stated: buffering is enabled only around the run of the controller
\* and only if the level is below Trace; it is disabled from the start of
\* logging until just before the run, and it is disabled whenever run_shadow
\* has returned after the run, whether the run succeeded or failed.
C16_BufferedOnlyDuringRun ==
    /\ logger.buffering => AtTheRun /\ BelowTrace
    /\ logger.init /\ ~ran /\ ~AtTheRun => ~logger.buffering
    /\ ran /\ mpc = "returned" => ~logger.buffering

\* C16, amended: buffering is enabled only if the level is below Trace, and
\* only around the run of the controller or after run_shadow has returned the
\* error of a failed run; around the run it is enabled exactly if the level
\* is below Trace; it is disabled from the start of logging until just before
\* the run and when run_shadow has returned Ok; when the run fails run_shadow
\* returns at once and buffering stays as it was during the run.
C16_BufferedUntilRunSucceeds ==
    /\ logger.buffering =>
          /\ BelowTrace
          /\ AtTheRun \/ (mpc = "returned" /\ result = [kind |-> "Err", at |-> "run"])
    /\ AtTheRun => (logger.buffering <=> BelowTrace)
    /\ logger.init /\ ~ran /\ ~AtTheRun => ~logger.buffering
    /\ mpc = "returned" /\ result.kind = "Ok" => ~logger.buffering
    /\ mpc = "returned" /\ result.at = "run" =>
          ran /\ result.kind = "Err" /\ (logger.buffering <=> BelowTrace)

\* C16's case: at level Debug the run of the controller failed and run_shadow
\* has returned its error
C16_Witness ==
    /\ mpc = "returned" /\ ran
    /\ result = [kind |-> "Err", at |-> "run"]
    /\ logger = [init |-> TRUE, buffering |-> TRUE, max_level |-> "Debug"]

\* the steps whose failure ends run_shadow whatever the options are
FatalSteps == { "glib", "sigprocmask", "open", "parse", "nofile", "nproc", "simconfig" }

\* C17: controller.run() is reached only when the GLib check, the signal
\* mask, the opening and the parsing of the configuration, both limits and
\* the SimConfig have succeeded, and with them the platform info if CPU
\* pinning is on, SCHED_FIFO if it is asked for and the gdb pause if it is
\* asked for.  A failure of the shared-memory cleanup before the run or of
\* disabling ASLR is a warning and never the end of run_shadow.  With
\* show_config the logger is never initialised and the controller never
\* run, and run_shadow, once the configuration is read, returns Ok.
C17_RunOnlyAfterStartup ==
    /\ ran \/ AtTheRun =>
          /\ FatalSteps \subseteq passed
          /\ shadow_config.use_cpu_pinning => "platform_info" \in passed
          /\ shadow_config.use_sched_fifo => "sched_fifo" \in passed
          /\ options.gdb => "gdb" \in passed
          /\ logger.init
    /\ \A step \in {"shm_cleanup", "disable_aslr"} :
          /\ result.at # step
          /\ step \in warnings => step \notin passed /\ mpc \notin {"shm_cleanup", "logger"}
          /\ ran \/ AtTheRun => step \in warnings \cup passed
    /\ options.show_config =>
          /\ ~logger.init /\ ~ran /\ ~AtTheRun
          /\ mpc = "returned" /\ {"open", "parse"} \subseteq passed =>
                result = [kind |-> "Ok", at |-> "show_config"]
          /\ result.kind = "Ok" => result.at = "show_config"
    /\ result.kind = "Ok" /\ result.at = "show_config" => options.show_config

\* C17's case: with CPU pinning, SCHED_FIFO and gdb asked for, the cleanup of
\* shared memory and disabling ASLR both failed, and the simulation ran and
\* run_shadow returned Ok
C17_Witness ==
    /\ mpc = "returned" /\ ran /\ result = [kind |-> "Ok", at |-> "end"]
    /\ {"shm_cleanup", "disable_aslr"} \subseteq warnings
    /\ shadow_config.use_cpu_pinning /\ shadow_config.use_sched_fifo /\ options.gdb
    /\ {"platform_info", "sched_fifo", "gdb"} \subseteq passed

====
